---- MODULE Spec2Model ----
(***************************************************************************)
(* A model of the config-file package: the ConfigFile facade               *)
(* (src/config_file/config_file.py) over the JSON adapter                  *)
(* (src/config_file/parsers/json_parser.py).                               *)
(*                                                                         *)
(* Python values are tagged records [t, v].  A dict is the sequence of its *)
(* entries in insertion order.  A str used as a key is modelled by the     *)
(* sequence of its dot-free segments ("a.b.c" is <<"a", "b", "c">>); the   *)
(* keys stored in a dict are dot-free, so a str equals a stored key iff it *)
(* has exactly one segment and that segment is the key.  A file's text is  *)
(* the sequence of its JSON tokens.                                        *)
(***************************************************************************)
EXTENDS Integers, Sequences, FiniteSets, TLC

\* ------------------------------------------------------------------ bounds
\* Longest dotted key handed to get/set/delete/has.
MaxPathLen == 3
\* __setitem__ adds a new top-level entry only to a tree with fewer entries.
MaxEntries == 1

\* ------------------------------------------------------------ Python values
Segs == {"a", "b", "c"}

IntV(n) == [t |-> "int", v |-> n]
BoolV(b) == [t |-> "bool", v |-> b]
DictV(es) == [t |-> "dict", v |-> es]
StrV(toks) == [t |-> "str", v |-> toks]
NoneV == [t |-> "None", v |-> 0]
\* An object json.dumps cannot serialise (a set, an instance of a class, ...).
Obj == [t |-> "object", v |-> 0]
\* utils.Default(None): the instance that is the `default` parameter's default.
DefaultNone == [t |-> "Default", v |-> 0]
\* type(Default): the class of the class Default, which is `type`.
TypeOfDefault == [t |-> "class", v |-> 0]

Entry(k, val) == [k |-> k, v |-> val]
IsDict(val) == val.t = "dict"

Return(val) == [kind |-> "return", val |-> val]
Raise(e) == [kind |-> "raise", val |-> [t |-> "exception", v |-> e]]
Returned(r) == r.kind = "return"
Raised(r, e) == r = Raise(e)

\* `k in d`, `d[k]`, `d[k] = val`, `del d[k]` for a dict with entries es.
DictHas(es, k) == \E i \in DOMAIN es : es[i].k = k
DictGet(es, k) == es[CHOOSE i \in DOMAIN es : es[i].k = k].v
DictSet(es, k, val) ==
    IF DictHas(es, k)
    THEN [i \in DOMAIN es |-> IF es[i].k = k THEN Entry(k, val) ELSE es[i]]
    ELSE Append(es, Entry(k, val))
DictDel(es, k) == SelectSeq(es, LAMBDA e : e.k # k)
\* `s in d` for a str s given by its segments.
StrInDict(es, s) == Len(s) = 1 /\ DictHas(es, s[1])

\* ------------------------------------------------------------- JSON text
Tok(tt, s, n) == [tt |-> tt, s |-> s, n |-> n]
Punct(s) == Tok("punct", s, 0)
StrTok(s) == Tok("string", s, 0)
NumTok(n) == Tok("number", "", n)
NullTok == Tok("literal", "null", 0)

RECURSIVE Serializable(_)
Serializable(val) ==
    CASE val.t = "int" -> TRUE
      [] val.t = "None" -> TRUE
      [] val.t = "bool" -> TRUE
      [] val.t = "dict" -> \A i \in DOMAIN val.v : Serializable(val.v[i].v)
      [] OTHER -> FALSE

RECURSIVE Dumps(_)
RECURSIVE DumpsEntries(_, _)
DumpsEntries(es, i) ==
    IF i > Len(es) THEN <<>>
    ELSE (IF i > 1 THEN <<Punct(",")>> ELSE <<>>)
         \o <<StrTok(es[i].k), Punct(":")>> \o Dumps(es[i].v)
         \o DumpsEntries(es, i + 1)
\* json.dumps(val) for a serialisable val.
Dumps(val) ==
    CASE val.t = "int" -> <<NumTok(val.v)>>
      [] val.t = "None" -> <<NullTok>>
      [] val.t = "bool" -> <<Tok("literal", IF val.v THEN "true" ELSE "false", 0)>>
      [] val.t = "dict" -> <<Punct("{")>> \o DumpsEntries(val.v, 1) \o <<Punct("}")>>

ParseFail == [ok |-> FALSE, val |-> NoneV, rest |-> <<>>]
ParseOk(val, rest) == [ok |-> TRUE, val |-> val, rest |-> rest]

RECURSIVE ParseValue(_)
RECURSIVE ParseMembers(_, _)
\* The members of an object after "{" or ",": string ":" value, then "," or "}".
ParseMembers(toks, es) ==
    IF Len(toks) < 2 \/ toks[1].tt # "string" \/ toks[2] # Punct(":") THEN ParseFail
    ELSE LET r == ParseValue(SubSeq(toks, 3, Len(toks)))
         IN  IF ~r.ok \/ r.rest = <<>> THEN ParseFail
             ELSE LET es2 == DictSet(es, toks[1].s, r.val)
                      more == Tail(r.rest)
                  IN  IF Head(r.rest) = Punct("}") THEN ParseOk(DictV(es2), more)
                      ELSE IF Head(r.rest) = Punct(",") THEN ParseMembers(more, es2)
                      ELSE ParseFail
ParseValue(toks) ==
    IF toks = <<>> THEN ParseFail
    ELSE LET h == Head(toks)
             more == Tail(toks)
         IN  CASE h.tt = "number" -> ParseOk(IntV(h.n), more)
               [] h = NullTok -> ParseOk(NoneV, more)
               [] h.tt = "literal" /\ h.s \in {"true", "false"} ->
                    ParseOk(BoolV(h.s = "true"), more)
               [] h = Punct("{") ->
                    IF more # <<>> /\ Head(more) = Punct("}")
                    THEN ParseOk(DictV(<<>>), Tail(more))
                    ELSE ParseMembers(more, <<>>)
               [] OTHER -> ParseFail
\* json.loads(text): the value, or a JSONDecodeError.
Loads(text) ==
    LET r == ParseValue(text)
    IN  IF r.ok /\ r.rest = <<>> THEN Return(r.val) ELSE Raise("JSONDecodeError")

\* JsonParser.parse
JsonParser_parse(file_contents) ==
    LET r == Loads(file_contents)
    IN  IF Raised(r, "JSONDecodeError") THEN Raise("ParsingError") ELSE r

\* ------------------------------------------------------------ JsonParser
\* JsonParser.get, JsonParser.set, JsonParser.delete: each body is `pass`, so the
\* call returns None, raises nothing and leaves parsed_content as it was.
JsonParser_get(tree, section_key) == Return(NoneV)
JsonParser_set(tree, section_key, value) == [tree |-> tree, result |-> Return(NoneV)]
JsonParser_delete(tree, section_key) == [tree |-> tree, result |-> Return(NoneV)]

\* JsonParser.stringify: json.dumps raises TypeError on an unserialisable value.
JsonParser_stringify(tree) ==
    IF Serializable(tree) THEN Return(StrV(Dumps(tree))) ELSE Raise("TypeError")

RECURSIVE JsonParser_search(_, _)
RECURSIVE JsonParser_search_loop(_, _, _)
\* The for loop of JsonParser._search from its i-th item on.  The result of the
\* recursive call in the last branch is not returned: the loop goes on.
JsonParser_search_loop(data, search_item, i) ==
    IF i > Len(data) THEN FALSE
    ELSE IF StrInDict(data, search_item) THEN TRUE
    ELSE IF ~IsDict(data[i].v) THEN JsonParser_search_loop(data, search_item, i + 1)
    ELSE IF StrInDict(data[i].v.v, search_item) THEN TRUE
    ELSE LET discarded == JsonParser_search(data[i].v.v, search_item)
         IN  JsonParser_search_loop(data, search_item, i + 1)
JsonParser_search(data, search_item) == JsonParser_search_loop(data, search_item, 1)

\* JsonParser.has(search_key): the whole key is the search item, unsplit.
JsonParser_has(tree, search_key) == Return(BoolV(JsonParser_search(tree.v, search_key)))
\* The parameters JsonParser.has declares besides self.
JsonParser_has_params == {"search_key"}

\* ------------------------------------------------------------- file system
CONFIG_PATH == "config.json"
ORIGINAL_PATH == "config.original.json"
OTHER_PATH == "other.json"
MISSING_PATH == "missing.json"
Paths == {CONFIG_PATH, ORIGINAL_PATH, OTHER_PATH, MISSING_PATH}
\* original_file_path=None
NoPath == "None"

File(text) == [exists |-> TRUE, text |-> text, readable |-> TRUE]
Unreadable(text) == [exists |-> TRUE, text |-> text, readable |-> FALSE]
Absent == [exists |-> FALSE, text |-> <<>>, readable |-> FALSE]

\* ConfigFilePath.original_path: name.ext -> name.original.ext beside it.
OriginalPath(p) == IF p = CONFIG_PATH THEN ORIGINAL_PATH ELSE p
\* ConfigFilePath(p).exists()
Exists(fs, p) == fs[p].exists
\* open(p, "w"): the file exists and is empty.
OpenW(fs, p) == [fs EXCEPT ![p] = File(<<>>)]
\* write(text) to the file just opened.
Write(fs, p, text) == [fs EXCEPT ![p].text = @ \o text]
\* unlink(p) of an existing file.
Unlink(fs, p) == [fs EXCEPT ![p] = Absent]
\* shutil.copyfile(src, dst) of a readable src.
CopyFile(fs, src, dst) == [fs EXCEPT ![dst] = File(fs[src].text)]

\* BaseParser.reset_internal_contents: re-parse; on ParsingError the tree stays.
BaseParser_reset_internal_contents(tree, file_contents) ==
    LET r == JsonParser_parse(file_contents)
    IN  IF Returned(r) THEN [tree |-> r.val, result |-> Return(NoneV)]
        ELSE [tree |-> tree, result |-> r]

\* ------------------------------------------------------------- ConfigFile
\* ConfigFile.get with parse_types=False and return_type=None.  `default is not
\* type(Default)` compares the argument with the class `type`.
ConfigFile_get(tree, key, default) ==
    LET r == JsonParser_get(tree, key)
    IN  IF Raised(r, "ParsingError")
        THEN IF default # TypeOfDefault THEN Return(default) ELSE Raise("ParsingError")
        ELSE r

ConfigFile_set(tree, key, value) == JsonParser_set(tree, key, value)

ConfigFile_delete(tree, key) == JsonParser_delete(tree, key)

ConfigFile_stringify(tree) == JsonParser_stringify(tree)

\* ConfigFile.has passes wild=wild by keyword; a keyword the callee does not
\* declare is a TypeError at the call.
ConfigFile_has(tree, key, wild) ==
    IF "wild" \in JsonParser_has_params
    THEN JsonParser_has(tree, key)
    ELSE Raise("TypeError")

\* ConfigFile.__getitem__ / __setitem__ / __delitem__ on parsed_content.
ConfigFile_getitem(tree, k) ==
    IF DictHas(tree.v, k) THEN Return(DictGet(tree.v, k)) ELSE Raise("KeyError")
ConfigFile_setitem(tree, k, value) ==
    [tree |-> DictV(DictSet(tree.v, k, value)), result |-> Return(NoneV)]
ConfigFile_delitem(tree, k) ==
    IF DictHas(tree.v, k)
    THEN [tree |-> DictV(DictDel(tree.v, k)), result |-> Return(NoneV)]
    ELSE [tree |-> tree, result |-> Raise("KeyError")]

\* ConfigFile.save in append mode.
ConfigFile_save_append(tree, fs) ==
    LET s == ConfigFile_stringify(tree)
    IN  IF Returned(s) THEN [fs |-> Write(fs, CONFIG_PATH, s.val.v), result |-> Return(NoneV)]
        ELSE [fs |-> fs, result |-> s]
\* ConfigFile.save: open(path, "w") truncates before stringify() is evaluated.
ConfigFile_save(tree, fs) ==
    LET opened == OpenW(fs, CONFIG_PATH)
        s == ConfigFile_stringify(tree)
    IN  IF Returned(s)
        THEN [fs |-> Write(opened, CONFIG_PATH, s.val.v), result |-> Return(NoneV)]
        ELSE [fs |-> opened, result |-> s]

\* ConfigFile.restore_original.  A path that is given and exists takes the else
\* branch too, where the computed sibling replaces it.
ConfigFile_restore_original(tree, fs, original_file_path) ==
    IF original_file_path # NoPath /\ ~Exists(fs, original_file_path)
    THEN [tree |-> tree, fs |-> fs, result |-> Raise("FileNotFoundError")]
    ELSE LET orig == OriginalPath(CONFIG_PATH)
         IN  IF ~Exists(fs, orig)
             THEN [tree |-> tree, fs |-> fs, result |-> Raise("FileNotFoundError")]
             ELSE IF ~Exists(fs, CONFIG_PATH)
             THEN [tree |-> tree, fs |-> fs, result |-> Raise("FileNotFoundError")]
             ELSE LET removed == Unlink(fs, CONFIG_PATH)
                  IN  IF ~fs[orig].readable
                      THEN [tree |-> tree, fs |-> removed,
                            result |-> Raise("PermissionError")]
                      ELSE LET copied == CopyFile(removed, orig, CONFIG_PATH)
                               reset == BaseParser_reset_internal_contents(
                                            tree, copied[CONFIG_PATH].text)
                           IN  [tree |-> reset.tree, fs |-> copied,
                                result |-> reset.result]

\* ------------------------------------------------------------------ inputs
\* The order of the segment names.
SegIndex(s) == CASE s = "a" -> 1 [] s = "b" -> 2 [] s = "c" -> 3
\* Dotted keys: up to MaxPathLen segments, each after the one before it.
KeyPaths ==
    {p \in UNION {[1..n -> Segs] : n \in 1..MaxPathLen} :
        \A i, j \in DOMAIN p : i < j => SegIndex(p[i]) < SegIndex(p[j])}
\* Values handed to set.
SetValues == {IntV(5), DictV(<<Entry("c", IntV(1))>>)}
\* Values assigned through __setitem__.
ItemValues == {IntV(5), Obj}
\* `default` arguments of get: left out, or 7.
Defaults == {DefaultNone, IntV(7)}

Doc0 == DictV(<<>>)
Doc1 == DictV(<<Entry("a", DictV(<<Entry("b", DictV(<<Entry("c", IntV(1))>>))>>))>>)
Doc2 == DictV(<<Entry("a", IntV(1)), Entry("b", DictV(<<Entry("c", IntV(5))>>))>>)
OrigDoc == DictV(<<Entry("a", IntV(5))>>)
OtherDoc == DictV(<<Entry("b", IntV(1))>>)
\* The configuration file a ConfigFile is constructed on.
ConfigTexts == {Dumps(Doc0), Dumps(Doc1), Dumps(Doc2)}
\* A file cut short: not JSON.
Malformed == <<Punct("{"), StrTok("a")>>
\* The sibling original: absent, well-formed, unreadable, or not JSON.
OriginalFiles == {Absent, File(Dumps(OrigDoc)), Unreadable(Dumps(OrigDoc)), File(Malformed)}

\* ------------------------------------------------------------------- state
VARIABLES
    parsed_content,  \* the adapter's tree
    files,           \* the file system: path -> file
    last,            \* the last call: operation, arguments, outcome
    treeBefore,      \* parsed_content when the last call was made
    filesBefore      \* files when the last call was made

vars == <<parsed_content, files, last, treeBefore, filesBefore>>

Call(op, key, arg, path, result) ==
    [op |-> op, key |-> key, arg |-> arg, path |-> path, result |-> result]

\* ConfigFile.__init__ on an existing, well-formed configuration file.
Init ==
    \E text \in ConfigTexts, o \in OriginalFiles :
        /\ files = [p \in Paths |->
                       CASE p = CONFIG_PATH -> File(text)
                         [] p = ORIGINAL_PATH -> o
                         [] p = OTHER_PATH -> File(Dumps(OtherDoc))
                         [] p = MISSING_PATH -> Absent]
        /\ parsed_content = JsonParser_parse(text).val
        /\ last = Call("__init__", <<>>, NoneV, NoPath, Return(NoneV))
        /\ treeBefore = parsed_content
        /\ filesBefore = files

\* The call just made, and the tree and the files it was made on.
Called(op, key, arg, path, result) ==
    /\ last' = Call(op, key, arg, path, result)
    /\ treeBefore' = parsed_content
    /\ filesBefore' = files

Get == \E key \in KeyPaths, default \in Defaults :
    /\ Called("get", key, default, NoPath, ConfigFile_get(parsed_content, key, default))
    /\ UNCHANGED <<parsed_content, files>>

Set == \E key \in KeyPaths, value \in SetValues :
    LET out == ConfigFile_set(parsed_content, key, value)
    IN  /\ parsed_content' = out.tree
        /\ Called("set", key, value, NoPath, out.result)
        /\ UNCHANGED files

Delete == \E key \in KeyPaths :
    LET out == ConfigFile_delete(parsed_content, key)
    IN  /\ parsed_content' = out.tree
        /\ Called("delete", key, NoneV, NoPath, out.result)
        /\ UNCHANGED files

Has == \E key \in KeyPaths, wild \in BOOLEAN :
    /\ Called("has", key, BoolV(wild), NoPath, ConfigFile_has(parsed_content, key, wild))
    /\ UNCHANGED <<parsed_content, files>>

\* JsonParser.has called on the adapter itself.
ParserHas == \E key \in KeyPaths :
    /\ Called("JsonParser.has", key, NoneV, NoPath, JsonParser_has(parsed_content, key))
    /\ UNCHANGED <<parsed_content, files>>

Stringify ==
    /\ Called("stringify", <<>>, NoneV, NoPath, ConfigFile_stringify(parsed_content))
    /\ UNCHANGED <<parsed_content, files>>

GetItem == \E k \in Segs :
    /\ Called("__getitem__", <<k>>, NoneV, NoPath, ConfigFile_getitem(parsed_content, k))
    /\ UNCHANGED <<parsed_content, files>>

SetItem == \E k \in Segs, value \in ItemValues :
    LET out == ConfigFile_setitem(parsed_content, k, value)
    IN  /\ DictHas(parsed_content.v, k) \/ Len(parsed_content.v) < MaxEntries
        /\ parsed_content' = out.tree
        /\ Called("__setitem__", <<k>>, value, NoPath, out.result)
        /\ UNCHANGED files

DelItem == \E k \in Segs :
    LET out == ConfigFile_delitem(parsed_content, k)
    IN  /\ parsed_content' = out.tree
        /\ Called("__delitem__", <<k>>, NoneV, NoPath, out.result)
        /\ UNCHANGED files

Save ==
    LET out == ConfigFile_save(parsed_content, files)
    IN  /\ files' = out.fs
        /\ Called("save", <<>>, NoneV, NoPath, out.result)
        /\ UNCHANGED parsed_content

RestoreOriginal == \E p \in {NoPath, OTHER_PATH, MISSING_PATH, CONFIG_PATH} :
    LET out == ConfigFile_restore_original(parsed_content, files, p)
    IN  /\ parsed_content' = out.tree
        /\ files' = out.fs
        /\ Called("restore_original", <<>>, NoneV, p, out.result)

Next ==
    \/ Get
    \/ Set
    \/ Delete
    \/ Has
    \/ ParserHas
    \/ Stringify
    \/ GetItem
    \/ SetItem
    \/ DelItem
    \/ Save
    \/ RestoreOriginal

Spec == Init /\ [][Next]_vars

\* ------------------------------------------------- vocabulary of the claims
\* The node a key path names, segment by segment from the root.
RECURSIVE Resolve(_, _)
Resolve(val, path) ==
    IF path = <<>> THEN [found |-> TRUE, val |-> val]
    ELSE IF IsDict(val) /\ DictHas(val.v, Head(path))
    THEN Resolve(DictGet(val.v, Head(path)), Tail(path))
    ELSE [found |-> FALSE, val |-> NoneV]
Resolves(tree, path) == Resolve(tree, path).found
Prefix(path, n) == SubSeq(path, 1, n)
\* Some segment before the last names an existing node that is not a mapping.
ThroughNonMapping(tree, path) ==
    \E n \in 1..(Len(path) - 1) :
        Resolves(tree, Prefix(path, n)) /\ ~IsDict(Resolve(tree, Prefix(path, n)).val)
\* Some mapping, at any depth, has seg as a key.
RECURSIVE ContainsAnywhere(_, _)
ContainsAnywhere(val, seg) ==
    /\ IsDict(val)
    /\ \/ DictHas(val.v, seg)
       \/ \E i \in DOMAIN val.v : ContainsAnywhere(val.v[i].v, seg)
\* The tree without the node path names; the tree itself when path names none.
RECURSIVE RemoveAt(_, _)
RemoveAt(val, path) ==
    IF ~Resolves(val, path) \/ path = <<>> THEN val
    ELSE IF Len(path) = 1 THEN DictV(DictDel(val.v, Head(path)))
    ELSE DictV(DictSet(val.v, Head(path),
                       RemoveAt(DictGet(val.v, Head(path)), Tail(path))))
\* The failure the specification calls KeyNotFound, under the names the code has
\* for it.
KeyNotFound(r) ==
    r.kind = "raise" /\ r.val.v \in {"KeyNotFound", "ParsingError", "MissingKeyError", "KeyError"}
Failed(r) == r.kind = "raise"

\* ------------------------------------------------------------------ claims
\* C1: for a key whose path does not resolve, get(key, default=d) returns d,
\* and get(key) without a default fails with KeyNotFound.
C1_MissingKeyDefault ==
    (last.op = "get" /\ ~Resolves(treeBefore, last.key)) =>
        IF last.arg = DefaultNone
        THEN KeyNotFound(last.result)
        ELSE last.result = Return(last.arg)

\* C2: a set(k, v) that succeeds, followed immediately by get(k) with no
\* default, makes that get return v.
C2_RoundTrip ==
    [][(/\ last.op = "set"
        /\ Returned(last.result)
        /\ last'.op = "get"
        /\ last'.key = last.key
        /\ last'.arg = DefaultNone) => last'.result = Return(last.arg)]_vars

\* C3: has(key, wild=true), and the adapter's has it delegates to, return true
\* iff some mapping at any depth of the tree has the last segment of key as a key.
C3_WildcardSearch ==
    (\/ last.op = "has" /\ last.arg = BoolV(TRUE)
     \/ last.op = "JsonParser.has") =>
        last.result =
            Return(BoolV(ContainsAnywhere(parsed_content, last.key[Len(last.key)])))

\* C4: has(key, wild=false) never fails and returns true iff the full dotted
\* path resolves, segment by segment from the root.
C4_ExactPath ==
    (last.op = "has" /\ last.arg = BoolV(FALSE)) =>
        last.result = Return(BoolV(Resolves(parsed_content, last.key)))

\* C5: after a set that succeeds, every prefix of the key path resolves (the
\* missing mappings were created) and the full path holds the value set.
C5_AutoVivification ==
    (last.op = "set" /\ Returned(last.result)) =>
        /\ \A n \in 1..Len(last.key) : Resolves(parsed_content, Prefix(last.key, n))
        /\ Resolve(parsed_content, last.key).val = last.arg

\* C6: after a delete(k) that succeeds, k does not resolve and the rest of the
\* tree (siblings, ancestors) is as it was.
C6_DeleteExact ==
    (last.op = "delete" /\ Returned(last.result)) =>
        /\ ~Resolves(parsed_content, last.key)
        /\ parsed_content = RemoveAt(treeBefore, last.key)

\* C7: delete of a path that does not resolve fails with KeyNotFound, set
\* through an existing non-mapping node fails, and a failed set or delete
\* leaves the tree as it was.
C7_NoPartialSuccess ==
    /\ (last.op = "delete" /\ ~Resolves(treeBefore, last.key)) => KeyNotFound(last.result)
    /\ (last.op = "set" /\ ThroughNonMapping(treeBefore, last.key)) => Failed(last.result)
    /\ (last.op \in {"set", "delete"} /\ Failed(last.result)) => parsed_content = treeBefore

\* The original file restore_original(path) was asked for.
AskedOriginal(path) == IF path = NoPath THEN OriginalPath(CONFIG_PATH) ELSE path

\* C8: after a restore_original(path) that succeeds, the configuration file holds
\* the contents of the original asked for (the file at path when one is given,
\* the sibling original when not), and the tree is their parse.  The path of the
\* configuration file itself is C10's case.
C8_RestoreOriginal ==
    (/\ last.op = "restore_original"
     /\ Returned(last.result)
     /\ last.path # CONFIG_PATH) =>
        /\ files[CONFIG_PATH].exists
        /\ files[CONFIG_PATH].text = filesBefore[AskedOriginal(last.path)].text
        /\ Return(parsed_content) = JsonParser_parse(filesBefore[AskedOriginal(last.path)].text)

FrameOps ==
    {"get", "set", "delete", "has", "stringify",
     "__getitem__", "__setitem__", "__delitem__", "JsonParser.has"}

\* C9: get, set, delete, has, stringify and the item accessors leave every file
\* as it was, and after a save() that returns, the configuration file holds
\* exactly stringify() of the current tree.
C9_PersistOnlyThroughSave ==
    /\ last.op \in FrameOps => files = filesBefore
    /\ (last.op = "save" /\ Returned(last.result)) =>
          /\ files[CONFIG_PATH].exists
          /\ Return(StrV(files[CONFIG_PATH].text)) = ConfigFile_stringify(parsed_content)

\* C9's case: a tree changed in memory was saved over different contents.
C9_Witness ==
    /\ last.op = "save"
    /\ Returned(last.result)
    /\ filesBefore[CONFIG_PATH].exists
    /\ filesBefore[CONFIG_PATH].text # <<>>
    /\ files[CONFIG_PATH].text # filesBefore[CONFIG_PATH].text

\* C10: when restore_original fails, the configuration file still exists with
\* the contents it had before the call, and the tree is unchanged.
C10_RestoreAtomic ==
    (last.op = "restore_original" /\ Failed(last.result)) =>
        /\ files[CONFIG_PATH].exists
        /\ files = filesBefore
        /\ parsed_content = treeBefore
====
